---- MODULE Spec2Model ----
(***************************************************************************)
(* Session manager of the therapy chatbot backend (backend/backend.py):    *)
(* the ConnectionManager store (client_models, chat_histories,             *)
(* gemini_chats) and the four HTTP handlers that drive it.  Handlers run   *)
(* on one asyncio event loop: a handler runs without interruption up to    *)
(* an await.  The only await is the Gemini call of get_ai_response, which  *)
(* runs chat.send_message on an executor thread.                           *)
(***************************************************************************)
EXTENDS Integers, Sequences, FiniteSets, Bags, TLC

\* ---------------------------------------------------------------- bounds
MaxSessions == 2   \* uuids drawn by create_session
MaxTurns    == 6   \* turns held at once, over all histories and chats

\* ------------------------------------------------------------- constants
GPT4   == "gpt4"
GEMINI == "gemini"
AIModel == {GPT4, GEMINI}

SYSTEM_PROMPT == <<"persona">>

\* Texts are sequences of characters; " " stands for any whitespace.
Whitespace == {" "}
RawMessages == {<<" ", "a", " ">>}
RawReplies  == {<<"r", " ">>}

\* A client_id no uuid4() call ever returns.
NoSuchId == 0

\* --------------------------------------------------------------- helpers
RECURSIVE lstrip(_)
lstrip(s) == IF s # <<>> /\ Head(s) \in Whitespace THEN lstrip(Tail(s)) ELSE s

RECURSIVE rstrip(_)
rstrip(s) == IF s # <<>> /\ s[Len(s)] \in Whitespace
             THEN rstrip(SubSeq(s, 1, Len(s) - 1)) ELSE s

\* str.strip()
strip(s) == rstrip(lstrip(s))

\* dict operations
EmptyDict == [k \in {} |-> 0]
DictSet(d, k, v) == [x \in (DOMAIN d) \cup {k} |-> IF x = k THEN v ELSE d[x]]
DictPop(d, k) == [x \in (DOMAIN d) \ {k} |-> d[x]]
DictGet(d, k, default) == IF k \in DOMAIN d THEN d[k] ELSE default

Turn(role, content) == [role |-> role, content |-> content]

VARIABLES
    client_models,   \* ConnectionManager.client_models : id -> AIModel
    chat_histories,  \* ConnectionManager.chat_histories : id -> list of turns
    gemini_chats,    \* ConnectionManager.gemini_chats : id -> ChatSession object
    chats,           \* the live ChatSession objects: object -> conversation it holds
    nextId,          \* the next uuid4() value
    returned,        \* client ids handed out in a StartResponse
    pending,         \* get_ai_response calls suspended at the Gemini await
    sent,            \* the provider request issued by the latest step
    response,        \* the HTTP response of the latest completed request
    loop,            \* the handler the event loop thread is inside a provider call of
    hung             \* the executor threads whose send_message never returns

vars == <<client_models, chat_histories, gemini_chats, chats, nextId, returned,
          pending, sent, response, loop, hung>>

NoCall == [provider |-> "none", chat |-> 0, payload |-> <<>>]
NoResponse == [op |-> "none", client_id |-> NoSuchId, status |-> 0,
               model |-> "none", text |-> <<>>, detail |-> ""]

Response(op, id, status, model, text, detail) ==
    [op |-> op, client_id |-> id, status |-> status,
     model |-> model, text |-> text, detail |-> detail]

\* HTTPException(status_code=500, detail="Internal Server Error")
InternalError(op, id) == Response(op, id, 500, "none", <<>>, "Internal Server Error")

\* The answer to a request whose handler lets an exception escape: the
\* framework's own 500, with no client_id in it.
UnhandledError(op) == Response(op, NoSuchId, 500, "none", <<>>, "unhandled exception")

\* The event loop thread is between handlers.
Idle == [handler |-> "idle", client_id |-> NoSuchId, model |-> "none",
         raw |-> <<>>, returns |-> TRUE]

\* The event loop thread is inside the provider call `handler` makes without
\* an await; `returns` is whether the provider ever answers it.
Running(handler, client_id, model, raw, returns) ==
    [handler |-> handler, client_id |-> client_id, model |-> model,
     raw |-> raw, returns |-> returns]

\* Ids a client can put in a request: those it was given, and a made-up one.
ClientIds == returned \cup {NoSuchId}

\* A new ChatSession object: one distinct from every live object.
nextChat == CHOOSE c \in 1..(Cardinality(DOMAIN chats) + 1) : c \notin DOMAIN chats

RECURSIVE SumLen(_, _)
SumLen(d, keys) ==
    IF keys = {} THEN 0
    ELSE LET k == CHOOSE x \in keys : TRUE
         IN  Len(d[k]) + SumLen(d, keys \ {k})

\* Turns held now, counting the two turns each send in flight will add.
TurnsHeld == SumLen(chat_histories, DOMAIN chat_histories)
             + SumLen(chats, DOMAIN chats) + 2 * BagCardinality(pending)

\* The ChatSession objects still referenced once the store and the suspended
\* handlers are (gc, pend): the others are freed.
Live(heap, gc, pend) ==
    LET used == {gc[k] : k \in DOMAIN gc} \cup {p.chat : p \in BagToSet(pend)}
    IN  [c \in (DOMAIN heap) \cap used |-> heap[c]]

Init ==
    /\ client_models = EmptyDict
    /\ chat_histories = EmptyDict
    /\ gemini_chats = EmptyDict
    /\ chats = EmptyDict
    /\ nextId = 1
    /\ returned = {}
    /\ pending = EmptyBag
    /\ sent = NoCall
    /\ response = NoResponse
    /\ loop = Idle
    /\ hung = EmptyBag

\* ------------------------------------------------------ ConnectionManager
\* The history seeded with the persona as a user turn.
NewHistory_UserPersona == <<Turn("user", SYSTEM_PROMPT)>>

\* [{"role": "system", "content": SYSTEM_PROMPT}]
NewHistory == <<Turn("system", SYSTEM_PROMPT)>>

\* gemini_model.start_chat(history=[]); chat.send_message(SYSTEM_PROMPT)
NewChat(ack) == <<Turn("user", SYSTEM_PROMPT), Turn("model", ack)>>

\* A Gemini request that replays the conversation of the chat before the
\* new message.
GeminiCall_Replay(chat, message) ==
    [provider |-> GEMINI, chat |-> chat,
     payload |-> Append(DictGet(chats, chat, <<>>), Turn("user", message))]

GeminiCall(chat, message) ==
    [provider |-> GEMINI, chat |-> chat, payload |-> <<Turn("user", message)>>]

Gpt4Call(messages) == [provider |-> GPT4, chat |-> 0, payload |-> messages]

get_history(histories, client_id) == DictGet(histories, client_id, NewHistory)

\* add_message without the membership test: a missing history is created.
add_message_Unguarded(histories, client_id, role, content) ==
    DictSet(histories, client_id,
            Append(DictGet(histories, client_id, NewHistory), Turn(role, content)))

add_message(histories, client_id, role, content) ==
    IF client_id \in DOMAIN histories
    THEN [histories EXCEPT ![client_id] = Append(@, Turn(role, content))]
    ELSE histories

\* create_session that does not record the model of the new session.
create_session_NoModel(client_id, model, ok) ==
    /\ UNCHANGED client_models
    /\ IF model = GEMINI
       THEN /\ TurnsHeld + 2 <= MaxTurns
            /\ sent' = GeminiCall(nextChat, SYSTEM_PROMPT)
            /\ IF ok
               THEN /\ \E ack \in RawReplies :
                          chats' = DictSet(chats, nextChat, NewChat(ack))
                    /\ gemini_chats' = DictSet(gemini_chats, client_id, nextChat)
               ELSE UNCHANGED <<chats, gemini_chats>>
            /\ UNCHANGED chat_histories
       ELSE /\ ok
            /\ TurnsHeld + 1 <= MaxTurns
            /\ chat_histories' = DictSet(chat_histories, client_id, NewHistory)
            /\ sent' = NoCall
            /\ UNCHANGED <<chats, gemini_chats>>

\* create_session: what the three dicts and the heap become.
\* `ok` is whether the Gemini start (start_chat, send_message) succeeds.
create_session(client_id, model, ok) ==
    /\ client_models' = DictSet(client_models, client_id, model)
    /\ IF model = GEMINI
       THEN /\ TurnsHeld + 2 <= MaxTurns
            /\ sent' = GeminiCall(nextChat, SYSTEM_PROMPT)
            /\ IF ok
               THEN /\ \E ack \in RawReplies :
                          chats' = DictSet(chats, nextChat, NewChat(ack))
                    /\ gemini_chats' = DictSet(gemini_chats, client_id, nextChat)
               ELSE UNCHANGED <<chats, gemini_chats>>
            /\ UNCHANGED chat_histories
       ELSE /\ ok
            /\ TurnsHeld + 1 <= MaxTurns
            /\ chat_histories' = DictSet(chat_histories, client_id, NewHistory)
            /\ sent' = NoCall
            /\ UNCHANGED <<chats, gemini_chats>>

\* str(uuid.uuid4())
uuid4 == nextId

\* POST /start.  A create_session that raises is not caught by the handler:
\* the framework answers 500 and no client_id goes out.
start_conversation(model, ok) ==
    /\ nextId <= MaxSessions
    /\ nextId' = nextId + 1
    /\ create_session(uuid4, model, ok)
    /\ IF ok
       THEN /\ returned' = returned \cup {uuid4}
            /\ response' = Response("start", uuid4, 200, model, <<>>, "")
       ELSE /\ UNCHANGED returned
            /\ response' = UnhandledError("start")
    /\ UNCHANGED pending

\* The branch get_ai_response takes for client_id:
\* model = client_models.get(client_id, GPT4), then the Gemini chat lookup.
Dispatch(client_id) ==
    IF DictGet(client_models, client_id, GPT4) = GEMINI
    THEN IF client_id \in DOMAIN gemini_chats THEN "gemini" ELSE "gemini_no_chat"
    ELSE "gpt4"

\* messages = get_history(client_id); messages.append(user turn): the list
\* get_history returns is the stored one when there is one, so the append
\* writes the store.
AppendUser(histories, client_id, message) ==
    add_message(histories, client_id, "user", message)

\* The GPT-4 branch with get_history returning a copy of the stored list:
\* the user turn never reaches the store.
Gpt4Outcome_Copy(histories, client_id, message, ok, reply) ==
    IF ok THEN add_message(histories, client_id, "assistant", reply)
          ELSE histories

\* What chat_histories is after the GPT-4 branch, by the outcome of the call.
Gpt4Outcome(histories, client_id, message, ok, reply) ==
    IF ok
    THEN add_message(AppendUser(histories, client_id, message),
                     client_id, "assistant", reply)
    ELSE AppendUser(histories, client_id, message)

\* The messages= argument of azure_client.chat.completions.create
Gpt4Messages(histories, client_id, message) ==
    Append(get_history(histories, client_id), Turn("user", message))

\* What the GPT-4 branch answers.
Gpt4Response(client_id, ok, reply) ==
    IF ok THEN Response("message", client_id, 200, GPT4, reply, "")
          ELSE InternalError("message", client_id)

\* POST /message, GPT-4 branch.  The Azure call is a blocking call made on
\* the event loop, so the whole handler is one step.
get_message_gpt4(client_id, raw, ok, rawReply) ==
    LET message == strip(raw)
        reply   == strip(rawReply)
    IN  /\ Dispatch(client_id) = "gpt4"
        /\ TurnsHeld + 2 <= MaxTurns
        /\ sent' = Gpt4Call(Gpt4Messages(chat_histories, client_id, message))
        /\ chat_histories' = Gpt4Outcome(chat_histories, client_id, message, ok, reply)
        /\ response' = Gpt4Response(client_id, ok, reply)
        /\ UNCHANGED <<client_models, gemini_chats, chats, nextId, returned, pending>>

\* What get_message answers when the Gemini chat is missing: the
\* HTTPException(400) is raised inside the try and caught by
\* `except Exception`, which raises the 500.
NoChatResponse(client_id) == InternalError("message", client_id)

\* POST /message, Gemini branch with no chat stored for the id.
get_message_no_chat(client_id, raw) ==
    /\ Dispatch(client_id) = "gemini_no_chat"
    /\ sent' = NoCall
    /\ response' = NoChatResponse(client_id)
    /\ UNCHANGED <<client_models, chat_histories, gemini_chats, chats, nextId,
                   returned, pending>>

\* POST /message, Gemini branch up to the await: chat.send_message is handed
\* to an executor thread and the handler is suspended.
get_message_gemini(client_id, raw) ==
    LET message == strip(raw)
        chat    == gemini_chats[client_id]
    IN  /\ Dispatch(client_id) = "gemini"
        /\ TurnsHeld + 2 <= MaxTurns
        /\ pending' = pending (+) SetToBag({[client_id |-> client_id,
                                             chat |-> chat,
                                             message |-> message,
                                             seen |-> chats[chat]]})
        /\ sent' = GeminiCall(chat, message)
        /\ UNCHANGED <<client_models, chat_histories, gemini_chats, chats, nextId,
                       returned, response>>

\* The conversations a ChatSession may hold after a send that saw `seen`
\* when it started and finds `now` when it finishes: threads sending on one
\* object are not ordered, so the write may build on either.
ChatAfterSend(seen, now, message, reply) ==
    {Append(Append(base, Turn("user", message)), Turn("model", reply)) :
        base \in {seen, now}}

\* POST /message, Gemini branch from the await on: the executor thread is
\* done and the handler answers.
get_message_gemini_done(p, ok, reply) ==
    /\ p \in BagToSet(pending)
    /\ pending' = pending (-) SetToBag({p})
    /\ sent' = NoCall
    /\ IF ok
       THEN /\ \E after \in ChatAfterSend(p.seen, chats[p.chat], p.message, reply) :
                  chats' = Live([chats EXCEPT ![p.chat] = after], gemini_chats, pending')
            /\ response' = Response("message", p.client_id, 200, GEMINI, reply, "")
       ELSE /\ chats' = Live(chats, gemini_chats, pending')
            /\ response' = InternalError("message", p.client_id)
    /\ UNCHANGED <<client_models, chat_histories, gemini_chats, nextId, returned>>

\* f"Switched to {new_model.value} model"
SwitchedText(new_model) == <<"Switched to ", new_model, " model">>

\* switch_model that leaves the old provider's state in place.
SwitchStore_KeepsOld(client_id, new_model, ok) ==
    /\ client_models' = DictSet(client_models, client_id, new_model)
    /\ IF new_model = GEMINI
       THEN /\ TurnsHeld + 2 <= MaxTurns
            /\ sent' = GeminiCall(nextChat, SYSTEM_PROMPT)
            /\ IF ok
               THEN /\ gemini_chats' = DictSet(gemini_chats, client_id, nextChat)
                    /\ \E ack \in RawReplies :
                          chats' = Live(DictSet(chats, nextChat, NewChat(ack)),
                                        gemini_chats', pending)
                    /\ UNCHANGED chat_histories
               ELSE UNCHANGED <<chats, gemini_chats, chat_histories>>
       ELSE /\ ok
            /\ chat_histories' = DictSet(chat_histories, client_id, NewHistory)
            /\ UNCHANGED <<gemini_chats, chats>>
            /\ sent' = NoCall

\* switch_model that does nothing when the model asked for is the one selected.
SwitchStore_SameIsNoOp(client_id, new_model, ok) ==
    IF client_models[client_id] = new_model
    THEN /\ ok
         /\ sent' = NoCall
         /\ UNCHANGED <<client_models, chat_histories, gemini_chats, chats>>
    ELSE /\ client_models' = DictSet(client_models, client_id, new_model)
         /\ IF new_model = GEMINI
            THEN /\ TurnsHeld + 2 <= MaxTurns
                 /\ sent' = GeminiCall(nextChat, SYSTEM_PROMPT)
                 /\ IF ok
                    THEN /\ gemini_chats' = DictSet(gemini_chats, client_id, nextChat)
                         /\ \E ack \in RawReplies :
                               chats' = Live(DictSet(chats, nextChat, NewChat(ack)),
                                             gemini_chats', pending)
                         /\ chat_histories' = DictPop(chat_histories, client_id)
                    ELSE UNCHANGED <<chats, gemini_chats, chat_histories>>
            ELSE /\ ok
                 /\ chat_histories' = DictSet(chat_histories, client_id, NewHistory)
                 /\ gemini_chats' = DictPop(gemini_chats, client_id)
                 /\ chats' = Live(chats, gemini_chats', pending)
                 /\ sent' = NoCall

\* ConnectionManager.switch_model once the id is known to exist.
SwitchStore(client_id, new_model, ok) ==
    /\ client_models' = DictSet(client_models, client_id, new_model)
    /\ IF new_model = GEMINI
       THEN /\ TurnsHeld + 2 <= MaxTurns
            /\ sent' = GeminiCall(nextChat, SYSTEM_PROMPT)
            /\ IF ok
               THEN /\ gemini_chats' = DictSet(gemini_chats, client_id, nextChat)
                    /\ \E ack \in RawReplies :
                          chats' = Live(DictSet(chats, nextChat, NewChat(ack)),
                                        gemini_chats', pending)
                    /\ chat_histories' = DictPop(chat_histories, client_id)
               ELSE UNCHANGED <<chats, gemini_chats, chat_histories>>
       ELSE /\ ok
            /\ chat_histories' = DictSet(chat_histories, client_id, NewHistory)
            /\ gemini_chats' = DictPop(gemini_chats, client_id)
            /\ chats' = Live(chats, gemini_chats', pending)
            /\ sent' = NoCall

\* The check with the default of get_ai_response: every id passes.
KnownClient_Always(client_id) == TRUE

\* client_id in self.client_models
KnownClient(client_id) == client_id \in DOMAIN client_models

\* POST /switch-model
switch_model(client_id, new_model, ok) ==
    /\ IF ~KnownClient(client_id)
       THEN /\ ok
            /\ response' = Response("switch", client_id, 400, "none", <<>>,
                                    "Invalid client_id")
            /\ sent' = NoCall
            /\ UNCHANGED <<client_models, chat_histories, gemini_chats, chats>>
       ELSE /\ SwitchStore(client_id, new_model, ok)
            /\ response' = IF ok
                           THEN Response("switch", client_id, 200, new_model,
                                         SwitchedText(new_model), "")
                           ELSE InternalError("switch", client_id)
    /\ UNCHANGED <<nextId, returned, pending>>

\* end_session that forgets the Gemini chat of the session.
end_conversation_KeepsChat(client_id) ==
    /\ chat_histories' = DictPop(chat_histories, client_id)
    /\ client_models' = DictPop(client_models, client_id)
    /\ response' = Response("end", client_id, 200, "none", <<>>, "Conversation ended")
    /\ sent' = NoCall
    /\ UNCHANGED <<gemini_chats, chats, nextId, returned, pending>>

\* DELETE /end/{client_id}: end_session(client_id)
end_conversation(client_id) ==
    /\ chat_histories' = DictPop(chat_histories, client_id)
    /\ gemini_chats' = DictPop(gemini_chats, client_id)
    /\ client_models' = DictPop(client_models, client_id)
    /\ chats' = Live(chats, gemini_chats', pending)
    /\ response' = Response("end", client_id, 200, "none", <<>>, "Conversation ended")
    /\ sent' = NoCall
    /\ UNCHANGED <<nextId, returned, pending>>

\* The handlers as the clients see them: every provider call returns, and
\* a handler that makes its call without an await is one step.
Next ==
    \/ \E model \in AIModel, ok \in BOOLEAN :
          start_conversation(model, ok) /\ UNCHANGED <<loop, hung>>
    \/ \E id \in ClientIds, raw \in RawMessages, ok \in BOOLEAN, r \in RawReplies :
          get_message_gpt4(id, raw, ok, r) /\ UNCHANGED <<loop, hung>>
    \/ \E id \in ClientIds, raw \in RawMessages :
          get_message_no_chat(id, raw) /\ UNCHANGED <<loop, hung>>
    \/ \E id \in ClientIds, raw \in RawMessages :
          get_message_gemini(id, raw) /\ UNCHANGED <<loop, hung>>
    \/ \E p \in BagToSet(pending), ok \in BOOLEAN, r \in RawReplies :
          get_message_gemini_done(p, ok, r) /\ UNCHANGED <<loop, hung>>
    \/ \E id \in ClientIds, m \in AIModel, ok \in BOOLEAN :
          switch_model(id, m, ok) /\ UNCHANGED <<loop, hung>>
    \/ \E id \in ClientIds : end_conversation(id) /\ UNCHANGED <<loop, hung>>

Spec == Init /\ [][Next]_vars

\* ------------------------------------------- the event loop, call by call
\* The same handlers with the provider calls drawn out.  A handler runs on
\* the one event loop thread; a provider call made without an await keeps
\* that thread until the provider answers, and no call is given a timeout.
\* The writes a handler makes around such a call are taken together when the
\* call returns: no other handler runs in between to tell them apart.

\* POST /start {model: gpt4}: no provider call.
run_start_gpt4 ==
    /\ loop = Idle
    /\ start_conversation(GPT4, TRUE)
    /\ UNCHANGED <<loop, hung>>

\* POST /start {model: gemini} reaches start_chat / send_message(SYSTEM_PROMPT).
call_start_gemini(returns) ==
    /\ loop = Idle
    /\ ENABLED start_conversation(GEMINI, TRUE)
    /\ loop' = Running("start", uuid4, GEMINI, <<>>, returns)
    /\ UNCHANGED <<client_models, chat_histories, gemini_chats, chats, nextId,
                   returned, pending, sent, response, hung>>

\* POST /message, GPT-4 branch, reaches azure_client.chat.completions.create.
call_message_gpt4(client_id, raw, returns) ==
    /\ loop = Idle
    /\ \E r \in RawReplies : ENABLED get_message_gpt4(client_id, raw, TRUE, r)
    /\ loop' = Running("message", client_id, GPT4, raw, returns)
    /\ UNCHANGED <<client_models, chat_histories, gemini_chats, chats, nextId,
                   returned, pending, sent, response, hung>>

\* POST /switch-model to gemini for a known id reaches start_chat /
\* send_message(SYSTEM_PROMPT).
call_switch_gemini(client_id, returns) ==
    /\ loop = Idle
    /\ KnownClient(client_id)
    /\ ENABLED switch_model(client_id, GEMINI, TRUE)
    /\ loop' = Running("switch", client_id, GEMINI, <<>>, returns)
    /\ UNCHANGED <<client_models, chat_histories, gemini_chats, chats, nextId,
                   returned, pending, sent, response, hung>>

\* The provider answers (ok) or the call raises (~ok): the handler runs on
\* to its end and the event loop thread is free again.
call_returns(ok, rawReply) ==
    /\ loop # Idle
    /\ loop.returns
    /\ CASE loop.handler = "start" -> start_conversation(loop.model, ok)
         [] loop.handler = "message" ->
                get_message_gpt4(loop.client_id, loop.raw, ok, rawReply)
         [] loop.handler = "switch" -> switch_model(loop.client_id, loop.model, ok)
    /\ loop' = Idle
    /\ UNCHANGED hung

\* POST /message with no Gemini chat for the id: no provider call.
run_message_no_chat(client_id, raw) ==
    /\ loop = Idle
    /\ get_message_no_chat(client_id, raw)
    /\ UNCHANGED <<loop, hung>>

\* POST /message, Gemini branch up to the await: the call goes to an
\* executor thread and the event loop thread is free.
run_message_gemini(client_id, raw) ==
    /\ loop = Idle
    /\ get_message_gemini(client_id, raw)
    /\ UNCHANGED <<loop, hung>>

\* The provider will never answer the send_message of the suspended call p.
send_message_hangs(p) ==
    /\ CopiesIn(p, hung) < CopiesIn(p, pending)
    /\ hung' = hung (+) SetToBag({p})
    /\ UNCHANGED <<client_models, chat_histories, gemini_chats, chats, nextId,
                   returned, pending, sent, response, loop>>

\* The future of run_in_executor resolves and the event loop resumes the
\* handler: only a send_message that came back resolves it.
resume_message_gemini(p, ok, rawReply) ==
    /\ loop = Idle
    /\ CopiesIn(p, hung) < CopiesIn(p, pending)
    /\ get_message_gemini_done(p, ok, rawReply)
    /\ UNCHANGED <<loop, hung>>

\* POST /switch-model that makes no provider call: an unknown id, or to gpt4.
run_switch_model(client_id, new_model) ==
    /\ loop = Idle
    /\ ~KnownClient(client_id) \/ new_model = GPT4
    /\ switch_model(client_id, new_model, TRUE)
    /\ UNCHANGED <<loop, hung>>

\* DELETE /end/{client_id}: no provider call.
run_end_conversation(client_id) ==
    /\ loop = Idle
    /\ end_conversation(client_id)
    /\ UNCHANGED <<loop, hung>>

LoopNext ==
    \/ run_start_gpt4
    \/ \E returns \in BOOLEAN : call_start_gemini(returns)
    \/ \E id \in ClientIds, raw \in RawMessages, returns \in BOOLEAN :
          call_message_gpt4(id, raw, returns)
    \/ \E id \in ClientIds, returns \in BOOLEAN : call_switch_gemini(id, returns)
    \/ \E ok \in BOOLEAN, r \in RawReplies : call_returns(ok, r)
    \/ \E id \in ClientIds, raw \in RawMessages : run_message_no_chat(id, raw)
    \/ \E id \in ClientIds, raw \in RawMessages : run_message_gemini(id, raw)
    \/ \E p \in BagToSet(pending) : send_message_hangs(p)
    \/ \E p \in BagToSet(pending), ok \in BOOLEAN, r \in RawReplies :
          resume_message_gemini(p, ok, r)
    \/ \E id \in ClientIds, m \in AIModel : run_switch_model(id, m)
    \/ \E id \in ClientIds : run_end_conversation(id)

SpecLoop == Init /\ [][LoopNext]_vars

\* ----------------------------------------------------------- properties
Store == <<client_models, chat_histories, gemini_chats>>

\* A POST /message for client_id is taken up by this step.
SendsMessage(client_id) ==
    \/ \E raw \in RawMessages, ok \in BOOLEAN, r \in RawReplies :
          get_message_gpt4(client_id, raw, ok, r)
    \/ \E raw \in RawMessages : get_message_no_chat(client_id, raw)
    \/ \E raw \in RawMessages : get_message_gemini(client_id, raw)

\* C1: a POST /message for an id that is not in the store is answered 400,
\* and no provider is called for it.
C1_UnknownIdRejected ==
    [][\A id \in ClientIds :
          (id \notin DOMAIN client_models /\ SendsMessage(id))
          => /\ response'.op = "message" /\ response'.client_id = id
             /\ response'.status = 400
             /\ sent' = NoCall]_vars

\* C2: a POST /message whose provider call fails leaves the three dicts of
\* the store as they were.
C2_FailedSendKeepsStore ==
    [][\A id \in ClientIds, raw \in RawMessages, r \in RawReplies :
          /\ get_message_gpt4(id, raw, FALSE, r) => UNCHANGED Store
          /\ \A p \in BagToSet(pending) :
                get_message_gemini_done(p, FALSE, r) => UNCHANGED Store]_vars

SystemTurns(h) == {i \in 1..Len(h) : h[i].role = "system"}

\* C3: every stored history starts with the persona system turn and holds
\* no other system turn.
C3_OneSystemTurnFirst ==
    \A id \in DOMAIN chat_histories :
        LET h == chat_histories[id]
        IN  /\ Len(h) >= 1
            /\ h[1] = Turn("system", SYSTEM_PROMPT)
            /\ SystemTurns(h) = {1}

\* C3 witness: one history went through a failed exchange (a user turn with
\* no answer) and a successful one, and another was just restored by a switch.
C3_Witness ==
    /\ \E id \in DOMAIN chat_histories :
          LET h == chat_histories[id]
          IN  /\ Len(h) >= 4
              /\ h[2].role = "user" /\ h[3].role = "user" /\ h[4].role = "assistant"
    /\ response.op = "switch" /\ response.status = 200 /\ response.model = GPT4
    /\ chat_histories[response.client_id] = NewHistory

\* The session has model selected, and only that provider's state is stored.
Selected(id, model) ==
    /\ id \in DOMAIN client_models /\ client_models[id] = model
    /\ model = GPT4 => id \in DOMAIN chat_histories /\ id \notin DOMAIN gemini_chats
    /\ model = GEMINI => id \in DOMAIN gemini_chats /\ id \notin DOMAIN chat_histories

\* A POST /switch-model or a DELETE /end for client_id is this step.
SwitchesOrEnds(client_id) ==
    \/ \E m \in AIModel, ok \in BOOLEAN : switch_model(client_id, m, ok)
    \/ end_conversation(client_id)

\* C4: a successful switch of id to model leaves id with model selected and
\* the other provider's state gone; only a switch or an end of id takes id
\* out of that state; and while it stands a POST /message for id calls that
\* provider (for Gemini: on the session's chat) and answers with that model.
C4_SwitchRoutesLaterSends ==
    [][\A id \in ClientIds, model \in AIModel :
          /\ (id \in DOMAIN client_models /\ switch_model(id, model, TRUE))
             => Selected(id, model)'
          /\ (Selected(id, model) /\ ~Selected(id, model)') => SwitchesOrEnds(id)
          /\ (Selected(id, model) /\ SendsMessage(id))
             => /\ sent'.provider = model
                /\ model = GEMINI => sent'.chat = gemini_chats[id]
                /\ (model = GPT4 /\ response'.status = 200)
                   => response'.client_id = id /\ response'.model = model
          /\ \A p \in BagToSet(pending), r \in RawReplies :
                get_message_gemini_done(p, TRUE, r) => response'.model = GEMINI]_vars

\* C4 witness: the latest answer is a successful switch of a session to
\* Gemini, the session held a history before (a GPT-4 send of it is the only
\* way the store got one), and a send issued since is in flight on the new chat.
C4_Witness ==
    /\ response.op = "switch" /\ response.status = 200 /\ response.model = GEMINI
    /\ \E p \in BagToSet(pending) :
          /\ p.client_id = response.client_id
          /\ p.chat = gemini_chats[response.client_id]
          /\ sent = GeminiCall(p.chat, p.message)
    /\ response.client_id \notin DOMAIN chat_histories

\* C5: every successful send extends the conversation of its session by its
\* own user turn followed at once by its own answer and changes nothing else
\* of it, whatever other sends of the session are in flight: two concurrent
\* sends leave two whole pairs, in the order they finished.
C5_EachSendAddsItsPair ==
    [][/\ \A id \in DOMAIN chat_histories, raw \in RawMessages, r \in RawReplies :
             get_message_gpt4(id, raw, TRUE, r)
             => chat_histories'[id] = chat_histories[id] \o
                    <<Turn("user", strip(raw)), Turn("assistant", strip(r))>>
       /\ \A p \in BagToSet(pending), r \in RawReplies :
             get_message_gemini_done(p, TRUE, r) /\ p.chat \in DOMAIN chats'
             => chats'[p.chat] = chats[p.chat] \o
                    <<Turn("user", p.message), Turn("model", r)>>]_vars

\* C6: a successful POST /start answers with an id no earlier start answered
\* with and that the store did not know, and from then on a POST /message
\* for the id finds its model in the store and takes that model's branch.
C6_StartedSessionResolves ==
    [][\A model \in AIModel :
          start_conversation(model, TRUE)
          => /\ response'.op = "start" /\ response'.status = 200
             /\ response'.model = model
             /\ response'.client_id \notin returned
             /\ response'.client_id \notin DOMAIN client_models
             /\ response'.client_id \in returned'
             /\ Selected(response.client_id, model)'
             /\ Dispatch(response.client_id)' = model]_vars

\* C6 witness: right after a successful Gemini start, a second session being
\* there already, a send for the new id is in flight on the chat started for it.
C6_Witness ==
    /\ response.op = "start" /\ response.status = 200 /\ response.model = GEMINI
    /\ response.client_id > 1
    /\ \E p \in BagToSet(pending) :
          p.client_id = response.client_id /\ sent = GeminiCall(p.chat, p.message)

Others(d, client_id) == [k \in (DOMAIN d) \ {client_id} |-> d[k]]

\* C7: DELETE /end answers 200 for every id; afterwards none of the three
\* dicts has the id, every other id's entries are as before, and for an id
\* that was not stored (so for a second end) the store is unchanged.
C7_EndIsIdempotent ==
    [][\A id \in ClientIds :
          end_conversation(id)
          => /\ response'.op = "end" /\ response'.status = 200
             /\ id \notin DOMAIN client_models'
             /\ id \notin DOMAIN chat_histories'
             /\ id \notin DOMAIN gemini_chats'
             /\ Others(client_models', id) = Others(client_models, id)
             /\ Others(chat_histories', id) = Others(chat_histories, id)
             /\ Others(gemini_chats', id) = Others(gemini_chats, id)
             /\ (id \notin DOMAIN client_models) => UNCHANGED Store]_vars

\* C7 witness: an end was just answered for an id that a start had returned,
\* and another session still holds an exchange.
C7_Witness ==
    /\ response.op = "end" /\ response.client_id \in returned
    /\ response.client_id \notin DOMAIN client_models
    /\ \E other \in DOMAIN chat_histories : Len(chat_histories[other]) >= 3

\* C8: every successful switch of a stored id resets the session, same model
\* or not: to GPT-4, the history is the single persona turn and no chat is
\* stored; to Gemini, the chat stored is an object that did not exist before,
\* holding only the persona exchange, and no history is stored.  The id and
\* the other sessions stay.
C8_SwitchIsDestructive ==
    [][\A id \in DOMAIN client_models, model \in AIModel :
          switch_model(id, model, TRUE)
          => /\ response'.status = 200 /\ response'.client_id = id
             /\ DOMAIN client_models' = DOMAIN client_models
             /\ model = GPT4
                => /\ chat_histories'[id] = NewHistory
                   /\ id \notin DOMAIN gemini_chats'
             /\ model = GEMINI
                => /\ id \in DOMAIN gemini_chats'
                   /\ gemini_chats'[id] \notin DOMAIN chats
                   /\ chats'[gemini_chats'[id]] \in {NewChat(a) : a \in RawReplies}
                   /\ id \notin DOMAIN chat_histories']_vars

\* C8 witness: a session was just switched to Gemini while a send of it is
\* still in flight on the chat it had before: it was on Gemini already, and
\* the chat stored now is another one.
C8_Witness ==
    /\ response.op = "switch" /\ response.status = 200 /\ response.model = GEMINI
    /\ \E p \in BagToSet(pending) :
          /\ p.client_id = response.client_id
          /\ p.chat # gemini_chats[response.client_id]
          /\ p.chat \in DOMAIN chats

\* C9: a POST /switch-model for an id that is not stored is answered 400,
\* calls no provider, starts no chat and leaves the store unchanged.
C9_SwitchUnknownRejected ==
    [][\A id \in ClientIds, model \in AIModel, ok \in BOOLEAN :
          (id \notin DOMAIN client_models /\ switch_model(id, model, ok))
          => /\ response'.op = "switch" /\ response'.client_id = id
             /\ response'.status = 400
             /\ sent' = NoCall
             /\ UNCHANGED <<Store, chats>>]_vars

\* C9 witness: a switch was just refused for an id that had a session once,
\* while another session is stored.
C9_Witness ==
    /\ response.op = "switch" /\ response.status = 400
    /\ response.client_id \in returned
    /\ DOMAIN client_models # {}

\* C10: a successful POST /message of a GPT-4 session sends the stored
\* history followed by the stripped message as user turn, and the stored
\* history becomes the old one, that user turn, then the assistant turn
\* carrying the text the response returns.
C10_Gpt4SendAppendsPair ==
    [][\A id \in DOMAIN client_models, raw \in RawMessages, r \in RawReplies :
          (client_models[id] = GPT4 /\ get_message_gpt4(id, raw, TRUE, r))
          => /\ sent' = Gpt4Call(Append(chat_histories[id], Turn("user", strip(raw))))
             /\ response'.status = 200 /\ response'.text = strip(r)
             /\ chat_histories'[id] = chat_histories[id] \o
                    <<Turn("user", strip(raw)), Turn("assistant", response'.text)>>]_vars

\* C10 witness: the second exchange of a GPT-4 session was just answered:
\* the request carried the history up to the new user turn.
C10_Witness ==
    /\ response.op = "message" /\ response.status = 200 /\ response.model = GPT4
    /\ response.client_id \in DOMAIN chat_histories
    /\ LET h == chat_histories[response.client_id]
       IN  /\ Len(h) >= 5
           /\ sent = Gpt4Call(SubSeq(h, 1, Len(h) - 1))
           /\ h[Len(h)] = Turn("assistant", response.text)

\* C13: every 500 is the one the handlers make themselves,
\* HTTPException(500, "Internal Server Error"): no request ends with an
\* exception that escaped its handler.
C13_FailuresAreTranslated ==
    response.status = 500
    => response.detail = "Internal Server Error" /\ response.text = <<>>

\* C14: a POST /message of a session on Gemini sends the new message alone
\* on the chat stored for the session and leaves chat_histories and
\* gemini_chats alone; the chat stored for an id changes only by a switch or
\* an end of the id, and only those give a Gemini session a history.
C14_GeminiSendsReuseHandle ==
    [][\A id \in ClientIds :
          /\ \A raw \in RawMessages :
                (Selected(id, GEMINI) /\ get_message_gemini(id, raw))
                => /\ sent' = [provider |-> GEMINI, chat |-> gemini_chats[id],
                               payload |-> <<Turn("user", strip(raw))>>]
                   /\ \E p \in BagToSet(pending') :
                         /\ p.client_id = id /\ p.chat = gemini_chats[id]
                         /\ CopiesIn(p, pending') = CopiesIn(p, pending) + 1
                   /\ UNCHANGED <<chat_histories, gemini_chats, chats>>
          /\ (/\ id \in DOMAIN gemini_chats
              /\ \/ id \notin DOMAIN gemini_chats'
                 \/ gemini_chats'[id] # gemini_chats[id])
             => SwitchesOrEnds(id)
          /\ (Selected(id, GEMINI) /\ id \in DOMAIN chat_histories')
             => SwitchesOrEnds(id)]_vars

\* C14 witness: a Gemini session has had one send answered on its chat and
\* the next one is in flight on the same chat.
C14_Witness ==
    \E id \in DOMAIN gemini_chats :
        /\ client_models[id] = GEMINI
        /\ Len(chats[gemini_chats[id]]) >= 4
        /\ \E p \in BagToSet(pending) :
              /\ p.client_id = id /\ p.chat = gemini_chats[id]
              /\ sent = [provider |-> GEMINI, chat |-> p.chat,
                         payload |-> <<Turn("user", p.message)>>]

\* C15: a POST /message for a session with Gemini selected and no chat
\* stored is answered 400 "Invalid client_id for Gemini.".
C15_MissingChatIs400 ==
    [][\A id \in ClientIds, raw \in RawMessages :
          get_message_no_chat(id, raw)
          => /\ response'.status = 400
             /\ response'.detail = "Invalid client_id for Gemini."]_vars

\* C16: an id whose model is recorded has the state of that model and no
\* other: a history exactly when it is GPT-4, a chat exactly when it is Gemini.
C16_SelectionMatchesState ==
    \A id \in DOMAIN client_models :
        /\ client_models[id] = GPT4 <=> id \in DOMAIN chat_histories
        /\ client_models[id] = GEMINI <=> id \in DOMAIN gemini_chats

\* C17: a POST /start whose Gemini start fails leaves the three dicts of the
\* store as they were.
C17_FailedStartKeepsStore ==
    [][\A model \in AIModel : start_conversation(model, FALSE) => UNCHANGED Store]_vars

\* C18: no id has a history and a Gemini chat at once.
C18_NeverBothStates ==
    (DOMAIN chat_histories) \cap (DOMAIN gemini_chats) = {}

\* C18 witness: a switch to Gemini just failed for a session that keeps its
\* history, while another session holds a chat.
C18_Witness ==
    /\ response.op = "switch" /\ response.status = 500
    /\ response.client_id \in DOMAIN chat_histories
    /\ client_models[response.client_id] = GEMINI
    /\ DOMAIN gemini_chats # {}

\* C19: a POST /message for an id that is not stored changes none of the
\* three dicts and no chat: nothing is created for the id, nothing of
\* another session is touched.
C19_UnknownSendKeepsStore ==
    [][\A id \in ClientIds :
          (id \notin DOMAIN client_models /\ SendsMessage(id))
          => UNCHANGED <<Store, chats, pending>>]_vars

\* C19 witness: a send for an id that is not stored was just answered by
\* GPT-4, and a session with an exchange is stored.
C19_Witness ==
    /\ response.op = "message" /\ response.status = 200 /\ response.model = GPT4
    /\ sent.provider = GPT4
    /\ response.client_id \notin DOMAIN client_models
    /\ \E other \in DOMAIN chat_histories : Len(chat_histories[other]) >= 3

NotStored(id) ==
    /\ id \notin DOMAIN client_models
    /\ id \notin DOMAIN chat_histories
    /\ id \notin DOMAIN gemini_chats

\* C20: an id a client holds that is in none of the three dicts (its
\* session was ended, or it never had one) is in none of them after any
\* step: the sends of it still in flight, and later sends and switches of
\* it, store nothing for it.
C20_EndedStaysEnded ==
    [][\A id \in ClientIds : NotStored(id) => NotStored(id)']_vars

\* C20 witness: a send that was in flight when its session was ended has just
\* been answered, and the id is still in none of the dicts.
C20_Witness ==
    /\ response.op = "message" /\ response.status = 200 /\ response.model = GEMINI
    /\ response.client_id \in returned
    /\ NotStored(response.client_id)

\* C11: no send of a started session stays in its provider call for good: a
\* send on the GPT-4 branch that is inside the call can be brought to its answer (the reply,
\* or the internal error once the call is given up), and so can every send
\* suspended on the Gemini branch whenever the event loop is free to resume
\* it; the session is then open to further operations.
C11_SendAlwaysCompletes ==
    /\ (loop.handler = "message" /\ loop.client_id \in returned)
       => ENABLED (\E ok \in BOOLEAN, r \in RawReplies : call_returns(ok, r))
    /\ loop = Idle
       => \A p \in BagToSet(pending) :
             ENABLED (\E ok \in BOOLEAN, r \in RawReplies :
                         resume_message_gemini(p, ok, r))

\* A provider call made for session a (by a start, a send or a switch) has
\* not come back yet.
CallPending(a) ==
    \/ loop # Idle /\ loop.client_id = a
    \/ \E p \in BagToSet(pending) : p.client_id = a

\* A request on session b is taken up by this step.
Handles(b) ==
    \/ \E raw \in RawMessages, returns \in BOOLEAN : call_message_gpt4(b, raw, returns)
    \/ \E raw \in RawMessages : run_message_no_chat(b, raw)
    \/ \E raw \in RawMessages : run_message_gemini(b, raw)
    \/ \E returns \in BOOLEAN : call_switch_gemini(b, returns)
    \/ \E m \in AIModel : run_switch_model(b, m)
    \/ run_end_conversation(b)

\* C12: while a provider call made for one session is pending, a request on
\* any other session of the store can be taken up.
C12_SessionsDoNotBlockEachOther ==
    \A b \in DOMAIN client_models :
       (\E a \in (1..nextId) \ {b} : CallPending(a)) => ENABLED Handles(b)

====
